---- MODULE Spec2Model ----
(***************************************************************************)
(* A model of pull (src/main.go): a command-line utility that collects     *)
(* local files, GitHub repository paths or URLs into one text blob and     *)
(* puts it on the clipboard.                                               *)
(*                                                                         *)
(* Byte strings are sequences of atoms [c |-> text, n |-> bytes]: an atom  *)
(* is a piece of text c that is n bytes wide.  Single characters have      *)
(* n = 1; FILL(n) is a run of n bytes of the letter x, which lets a body   *)
(* be as long as the real size ceilings without being spelled out.         *)
(***************************************************************************)
EXTENDS Integers, Sequences, FiniteSets, TLC

VARIABLES
  stage,    \* SpecFile, SpecRead: "start", then what has been applied
  data,     \* SpecFile, SpecRead: the bytes of the file or response body
  status,   \* SpecFile: the HTTP status of the raw fetch (0: a local file)
  sb,       \* the strings.Builder being filled
  err,      \* the error returned ("" is nil)
  again,    \* SpecFile: the Line Filter applied to its own output
  rmax,     \* SpecRead: the ceiling handed to readUpTo
  rout,     \* SpecRead: the bytes readUpTo returned
  pc,       \* where main is
  nargs,    \* how many of os.Args[1:] the argument loop has consumed
  appendMode, prependMode, includeIgnored, command, writeTarget, filePaths,
  clipboard,        \* the system clipboard
  clip0,            \* its content when the process started
  writes,           \* the calls of clipboard.WriteAll so far
  previousContent,  \* buildWithClipboardModes: the content held for prepend
  seedLen,          \* the length of sb when the producer was invoked
  final,            \* the string buildWithClipboardModes returned
  opIdx,            \* the index in filePaths of the operand being collected
  exitCode,         \* -1 while running, then the exit status
  stdout,           \* what emit printed
  fileOut,          \* what write stored at writeTarget
  log,              \* the operations performed, in order
  ign,              \* the ignore matcher loadGitIgnoreForCWD returned
  todo,             \* filepath.WalkDir: the entries still to visit, in order
  wtodo,            \* walkContents: the calls and listing rows still to handle
  reqs,             \* walkContents: the listing requests sent so far
  ghSpec,           \* the gitHubSpec of the remote operand being collected
  resp              \* the response the last remote request received

fileVars == <<stage, data, status, again, rmax, rout>>
argVars == <<nargs, appendMode, prependMode, includeIgnored, command, writeTarget, filePaths>>
clipVars == <<clipboard, clip0, writes>>
buildVars == <<previousContent, seedLen, final>>
outVars == <<stdout, fileOut>>
walkVars == <<ign, todo, wtodo, reqs, ghSpec, resp>>

vars == <<fileVars, sb, err, pc, argVars, clipVars, buildVars, opIdx, exitCode, outVars, log,
          walkVars>>

\* ------------------------------------------------------------------ bounds

\* longest spelled-out input of the line filter, in atoms
MaxLen == 3

\* largest small ceiling tried on readUpTo
MaxCeil == 3

\* longest argument list
MaxArgs == 3

\* ------------------------------------------------------- program constants

\* const maxFetchBytes = 5 << 20
maxFetchBytes == 5242880

\* bufio.MaxScanTokenSize (64 * 1024), the buffer limit of bufio.NewScanner
MaxScanTokenSize == 64 * 1024

\* ------------------------------------------------------------ byte strings

B(ch) == [c |-> ch, n |-> 1]
FILL(k) == [c |-> "x", n |-> k]

NL == B("\n")
CR == B("\r")
SP == B(" ")

\* the text "file: " with which processFile and fetchFileRaw start a header
FileTag == [c |-> "file: ", n |-> 6]

RECURSIVE ByteLen(_)
ByteLen(s) == IF s = <<>> THEN 0 ELSE Head(s).n + ByteLen(Tail(s))

\* the first k bytes of s (an atom that straddles the cut is split)
RECURSIVE TakeBytes(_, _)
TakeBytes(s, k) ==
  IF k <= 0 \/ s = <<>> THEN <<>>
  ELSE IF Head(s).n <= k THEN <<Head(s)>> \o TakeBytes(Tail(s), k - Head(s).n)
  ELSE <<[c |-> Head(s).c, n |-> k]>>

\* strings.HasSuffix(s, "\n")
HasSuffixNL(s) == Len(s) > 0 /\ s[Len(s)] = NL

\* unicode.IsSpace on an atom
IsSpace(a) == a.c \in {" ", "\r", "\n", "\t"}

\* strings.TrimSpace
RECURSIVE TrimLeft(_)
TrimLeft(s) == IF s # <<>> /\ IsSpace(Head(s)) THEN TrimLeft(Tail(s)) ELSE s

RECURSIVE TrimRight(_)
TrimRight(s) ==
  IF s # <<>> /\ IsSpace(s[Len(s)]) THEN TrimRight(SubSeq(s, 1, Len(s) - 1)) ELSE s

TrimSpace(s) == TrimRight(TrimLeft(s))

\* strings.HasPrefix(s, "//") and strings.HasPrefix(s, "#")
HasPrefixSlashes(s) == Len(s) >= 2 /\ s[1] = B("/") /\ s[2] = B("/")
HasPrefixHash(s) == Len(s) >= 1 /\ s[1] = B("#")

\* --------------------------------------------------------- bufio.Scanner

\* index of the first newline of s, 0 when there is none (bytes.IndexByte)
RECURSIVE IndexNL(_, _)
IndexNL(s, i) ==
  IF i > Len(s) THEN 0 ELSE IF s[i] = NL THEN i ELSE IndexNL(s, i + 1)

\* bufio.dropCR: one trailing carriage return is not part of the token
dropCR(tok) ==
  IF Len(tok) > 0 /\ tok[Len(tok)] = CR THEN SubSeq(tok, 1, Len(tok) - 1) ELSE tok

\* The tokens scanner.Scan() yields over the bytes with bufio.ScanLines: the text
\* before each newline, and a final unterminated line when it is not empty.
\* A line that fills the scanner's buffer (MaxScanTokenSize bytes without a
\* newline) makes Scan return false (bufio.ErrTooLong); neither caller looks
\* at scanner.Err(), so the loop just ends there.
RECURSIVE ScanLines(_)
ScanLines(bytes) ==
  LET i == IndexNL(bytes, 1)
      line == IF i = 0 THEN bytes ELSE SubSeq(bytes, 1, i - 1)
      rest == IF i = 0 THEN <<>> ELSE SubSeq(bytes, i + 1, Len(bytes))
  IN IF bytes = <<>> THEN <<>>
     ELSE IF ByteLen(line) >= MaxScanTokenSize THEN <<>>
     ELSE <<dropCR(line)>> \o ScanLines(rest)

\* the body of the scanner loop for one line: what it writes to the builder
keepLine(line) ==
  LET trimmed == TrimSpace(line)
  IN IF Len(trimmed) = 0 THEN <<>>
     ELSE IF HasPrefixSlashes(trimmed) \/ HasPrefixHash(trimmed) THEN <<>>
     ELSE line \o <<NL>>

RECURSIVE writeLines(_)
writeLines(lines) ==
  IF lines = <<>> THEN <<>> ELSE keepLine(Head(lines)) \o writeLines(Tail(lines))

\* the scanner loop of processFile and of fetchFileRaw (the Line Filter)
scanLoop(bytes) == writeLines(ScanLines(bytes))

\* --------------------------------------------------------------- readUpTo

\* mutant: the limit is max, not max + 1, so an oversized body is cut to max
limitedRead_NoSpareByte(r, max) == TakeBytes(r, max)

\* io.ReadAll(&io.LimitedReader{R: r, N: max + 1})
limitedRead(r, max) == TakeBytes(r, max + 1)

\* readUpTo(r, max): [err, b]
readUpTo(r, max) ==
  LET b == limitedRead(r, max)
  IN IF ByteLen(b) > max
       THEN [err |-> "response too large", b |-> <<>>]
       ELSE [err |-> "", b |-> b]

\* ------------------------------------------------------------ one file

\* mutant: the header is written after the file's lines
processFile_HeaderLast(absPath, openOK, bytes, sb0) ==
  (sb0 \o (IF openOK THEN scanLoop(bytes) ELSE <<>>)) \o (<<FileTag>> \o absPath \o <<NL>>)

\* processFile(p, sb): the header, then the filtered lines when the file opens
\* mutant: the file is opened before its header is written
processFile_OpenFirst(absPath, openOK, bytes, sb0) ==
  IF openOK THEN ((sb0 \o <<FileTag>>) \o (absPath \o <<NL>>)) \o scanLoop(bytes) ELSE sb0

processFile(absPath, openOK, bytes, sb0) ==
  LET withHeader == (sb0 \o <<FileTag>>) \o (absPath \o <<NL>>)
  IN IF openOK THEN withHeader \o scanLoop(bytes) ELSE withHeader

Is2xx(code) == code >= 200 /\ code <= 299

\* fetchFileRaw from the response on: [err, sb]
fetchFileRaw(label, code, body, sb0) ==
  IF ~Is2xx(code) THEN [err |-> "github: raw fetch bad status", sb |-> sb0]
  ELSE LET r == readUpTo(body, maxFetchBytes)
       IN IF r.err # "" THEN [err |-> "github: file too large", sb |-> sb0]
          ELSE [err |-> "",
                sb |-> ((sb0 \o <<FileTag>>) \o (label \o <<NL>>)) \o scanLoop(r.b)]

\* ------------------------------------------------------------------------
\* SpecFile: one file through processFile or fetchFileRaw, and the Line
\* Filter applied once more to what it wrote.
\* ------------------------------------------------------------------------

T(text) == [c |-> text, n |-> Len(text)]

\* all byte strings of at most k atoms over the alphabet A
RECURSIVE SeqsUpTo(_, _)
SeqsUpTo(A, k) ==
  IF k = 0 THEN {<<>>}
  ELSE LET shorter == SeqsUpTo(A, k - 1)
       IN shorter \cup {Append(q, a) : q \in shorter, a \in A}

FileAlphabet == {B("a"), SP, B("#"), B("/"), NL, CR, FileTag}

\* bodies around the scanner's buffer limit and the fetch ceiling
LongInputs ==
  { <<FILL(MaxScanTokenSize - 1), NL, B("b"), NL>>,
    <<FILL(MaxScanTokenSize), NL, B("b"), NL>>,
    <<B("a"), NL, FILL(MaxScanTokenSize)>>,
    <<B("a"), NL, FILL(MaxScanTokenSize - 1)>>,
    <<FILL(MaxScanTokenSize - 1), CR, NL, B("b")>>,
    <<B("a"), NL, FILL(maxFetchBytes - 2)>>,
    <<B("a"), NL, FILL(maxFetchBytes - 1)>> }

FileInputs == SeqsUpTo(FileAlphabet, MaxLen) \cup LongInputs

\* the absolute path of the local file, the label of the remote one
LocalName == <<T("/w/a.txt")>>
RemoteName == <<T("github.com/o/r/a.txt")>>

\* main has not started (the specifications of single functions)
RunIdle ==
  /\ pc = "idle" /\ nargs = 0
  /\ appendMode = FALSE /\ prependMode = FALSE /\ includeIgnored = FALSE
  /\ command = "" /\ writeTarget = <<>> /\ filePaths = <<>>
  /\ clipboard = <<>> /\ clip0 = <<>> /\ writes = 0
  /\ previousContent = <<>> /\ seedLen = 0 /\ final = <<>>
  /\ opIdx = 0 /\ exitCode = -1 /\ stdout = <<>> /\ fileOut = <<>> /\ log = <<>>
  /\ ign = [loaded |-> FALSE, matches |-> {}] /\ todo = <<>> /\ wtodo = <<>> /\ reqs = 0
  /\ ghSpec = [err |-> "", Owner |-> <<>>, Repo |-> <<>>, Ref |-> <<>>, Path |-> <<>>,
               Label |-> <<>>]
  /\ resp = [kind |-> "none", items |-> <<>>, code |-> 0, body |-> <<>>, at |-> <<>>]

runVars == <<pc, argVars, clipVars, buildVars, opIdx, exitCode, outVars, log, walkVars>>

RestIdle == rmax = 0 /\ rout = <<>> /\ RunIdle

InitFile ==
  /\ stage = "start"
  /\ data \in FileInputs
  /\ status = 0
  /\ sb = <<>>
  /\ err = ""
  /\ again = <<>>
  /\ RestIdle

\* processFile on a local file holding data (os.Open may fail)
ProcessLocal ==
  /\ stage = "start"
  /\ \E openOK \in BOOLEAN :
       /\ sb' = processFile(LocalName, openOK, data, sb)
       /\ stage' = IF openOK THEN "filtered" ELSE "unopened"
  /\ UNCHANGED <<data, status, err, again, rmax, rout, runVars>>

\* fetchFileRaw on a remote file whose raw response is (code, data)
FetchRemote ==
  /\ stage = "start"
  /\ \E code \in {200, 404} :
       LET r == fetchFileRaw(RemoteName, code, data, sb)
       IN /\ status' = code
          /\ sb' = r.sb
          /\ err' = r.err
          /\ stage' = IF r.err = "" THEN "filtered" ELSE "failed"
  /\ UNCHANGED <<data, again, rmax, rout, runVars>>

HeaderLen == 3
Header == SubSeq(sb, 1, HeaderLen)
Content == SubSeq(sb, HeaderLen + 1, Len(sb))

\* the Line Filter over the content block it produced
Refilter ==
  /\ stage = "filtered"
  /\ again' = scanLoop(Content)
  /\ stage' = "refiltered"
  /\ UNCHANGED <<data, status, sb, err, rmax, rout, runVars>>

NextFile == ProcessLocal \/ FetchRemote \/ Refilter

SpecFile == InitFile /\ [][NextFile]_vars

Filtered == stage \in {"filtered", "refiltered"}

\* The Line Filter as the specification words it: the lines are the pieces
\* between newline bytes.
RECURSIVE SplitNL(_)
SplitNL(bytes) ==
  LET i == IndexNL(bytes, 1)
  IN IF bytes = <<>> THEN <<>>
     ELSE IF i = 0 THEN <<bytes>>
     ELSE <<SubSeq(bytes, 1, i - 1)>> \o SplitNL(SubSeq(bytes, i + 1, Len(bytes)))

Dropped(line) ==
  LET t == TrimSpace(line)
  IN t = <<>> \/ HasPrefixSlashes(t) \/ HasPrefixHash(t)

RECURSIVE Retained(_)
Retained(lines) ==
  IF lines = <<>> THEN <<>>
  ELSE (IF Dropped(Head(lines)) THEN <<>> ELSE Head(lines) \o <<NL>>)
         \o Retained(Tail(lines))

\* C5 (as claimed): the content block is exactly the lines of the input whose
\* trimmed form is neither empty nor a // or # comment, each unaltered and
\* followed by one newline, in the original order.
CE_C5_FilterKeepsEveryOtherLine ==
  Filtered => Content = Retained(SplitNL(data))

\* C6 (as claimed): filtering already-filtered output yields the same output.
CE_C6_FilterIdempotent ==
  stage = "refiltered" => again = Content

IsHeaderLine(line) == line # <<>> /\ line[1] = FileTag

Range(q) == {q[j] : j \in 1..Len(q)}

\* C7 (as claimed): the header comes first and no line of the content block
\* is a header line.
CE_C7_NoHeaderLineInContent ==
  Filtered =>
    /\ IsHeaderLine(Header)
    /\ \A l \in Range(SplitNL(Content)) : ~IsHeaderLine(l)

\* C7 (amended): the header is the first line of the file's segment, before
\* all of its content, and the collector writes no header into the content
\* block: a content line reads `file: ...` only when it is a line of the
\* file itself.
Thm_C7_HeaderFirstContentIsTheFiles ==
  Filtered =>
    /\ Header = <<FileTag>> \o (IF status = 0 THEN LocalName ELSE RemoteName) \o <<NL>>
    /\ \A l \in Range(SplitNL(Content)) :
         IsHeaderLine(l) => l \in Range(ScanLines(data))

\* a file one of whose lines reads `file: ...` has been collected
Wit_C7 ==
  /\ stage = "filtered"
  /\ \E l \in Range(SplitNL(Content)) : IsHeaderLine(l)
  /\ \E l \in Range(SplitNL(Content)) : ~IsHeaderLine(l)

\* ------------------------------------------------------------------------
\* main: the argument loop, the command switch, buildWithClipboardModes and
\* the producers.  A command-line argument is a sequence of text tokens
\* (<<"--append">>, <<"github.com", "/", "o", "/", "r">>): the separators
\* "/" and "@" and the scheme are tokens of their own, so that the parsers
\* can be modelled on what they look at.
\* ------------------------------------------------------------------------

\* the bytes of an argument
RECURSIVE Text(_)
Text(arg) == IF arg = <<>> THEN <<>> ELSE <<T(Head(arg))>> \o Text(Tail(arg))

FlagArgs == {<<"--append">>, <<"--prepend">>, <<"--includeIgnore">>}
CommandArgs == {<<"clear">>, <<"emit">>, <<"write">>, <<"href">>}

Exit(code) == pc' = "exit" /\ exitCode' = code

\* an entry of the log: the operation and the operand it belongs to (0: none)
Ev(what, i) == [e |-> what, i |-> i]
\* a request of the remote walk: the path asked for and the rows answered
EvAt(what, i, at, rows) == [e |-> what, i |-> i, at |-> at, rows |-> rows]

\* one iteration of `for i, arg := range args` (two for `write <target>`:
\* the iteration of the target only resets skipNext), with arg drawn from Args
ParseArg(Args) ==
  /\ pc = "args"
  /\ nargs < MaxArgs
  /\ \E arg \in Args :
       IF arg = <<"--append">> THEN
         /\ appendMode' = TRUE /\ nargs' = nargs + 1
         /\ UNCHANGED <<prependMode, includeIgnored, command, writeTarget, filePaths>>
       ELSE IF arg = <<"--prepend">> THEN
         /\ prependMode' = TRUE /\ nargs' = nargs + 1
         /\ UNCHANGED <<appendMode, includeIgnored, command, writeTarget, filePaths>>
       ELSE IF arg = <<"--includeIgnore">> THEN
         /\ includeIgnored' = TRUE /\ nargs' = nargs + 1
         /\ UNCHANGED <<appendMode, prependMode, command, writeTarget, filePaths>>
       ELSE IF command = "" /\ Len(filePaths) = 0 /\ arg \in {<<"clear">>, <<"emit">>, <<"href">>} THEN
         /\ command' = arg[1] /\ nargs' = nargs + 1
         /\ UNCHANGED <<appendMode, prependMode, includeIgnored, writeTarget, filePaths>>
       ELSE IF command = "" /\ Len(filePaths) = 0 /\ arg = <<"write">> THEN
         \* i+1 < len(args): the next argument is the target and is skipped
         /\ command' = "write"
         /\ nargs + 1 < MaxArgs
         /\ \E target \in Args : writeTarget' = target
         /\ nargs' = nargs + 2
         /\ UNCHANGED <<appendMode, prependMode, includeIgnored, filePaths>>
       ELSE
         /\ filePaths' = Append(filePaths, arg) /\ nargs' = nargs + 1
         /\ UNCHANGED <<appendMode, prependMode, includeIgnored, command, writeTarget>>
  /\ UNCHANGED <<fileVars, sb, err, pc, clipVars, buildVars, opIdx, exitCode, outVars, log, walkVars>>

\* `write` as the last argument: there is no target to take
ParseWriteLast ==
  /\ pc = "args"
  /\ nargs < MaxArgs
  /\ command = "" /\ Len(filePaths) = 0
  /\ command' = "write"
  /\ nargs' = nargs + 1
  /\ pc' = "switch"
  /\ UNCHANGED <<fileVars, sb, err, appendMode, prependMode, includeIgnored, writeTarget,
                 filePaths, clipVars, buildVars, opIdx, exitCode, outVars, log, walkVars>>

\* the end of the argument list (with no argument at all: printUsage, return)
EndArgs ==
  /\ pc = "args"
  /\ IF nargs = 0
       THEN Exit(0) /\ log' = Append(log, Ev("usage", 0))
       ELSE pc' = "switch" /\ UNCHANGED <<exitCode, log>>
  /\ UNCHANGED <<fileVars, sb, err, argVars, clipVars, buildVars, opIdx, outVars, walkVars>>

\* case "clear"
DoClear ==
  /\ pc = "switch" /\ command = "clear"
  /\ writes' = writes + 1
  /\ \E ok \in BOOLEAN :
       IF ok THEN clipboard' = <<>> /\ Exit(0)
             ELSE UNCHANGED clipboard /\ Exit(1)
  /\ log' = Append(log, Ev("clear", 0))
  /\ UNCHANGED <<fileVars, sb, err, argVars, clip0, buildVars, opIdx, outVars, walkVars>>

\* case "emit"
DoEmit ==
  /\ pc = "switch" /\ command = "emit"
  /\ \E ok \in BOOLEAN :
       IF ok THEN stdout' = clipboard /\ Exit(0)
             ELSE UNCHANGED stdout /\ Exit(1)
  /\ log' = Append(log, Ev("emit", 0))
  /\ UNCHANGED <<fileVars, sb, err, argVars, clipVars, buildVars, opIdx, fileOut, walkVars>>

\* case "write"
DoWrite ==
  /\ pc = "switch" /\ command = "write"
  /\ IF writeTarget = <<>> THEN Exit(1) /\ UNCHANGED fileOut
     ELSE \E readOK \in BOOLEAN, writeOK \in BOOLEAN :
            IF readOK /\ writeOK THEN fileOut' = clipboard /\ Exit(0)
                                 ELSE UNCHANGED fileOut /\ Exit(1)
  /\ log' = Append(log, Ev("write", 0))
  /\ UNCHANGED <<fileVars, sb, err, argVars, clipVars, buildVars, opIdx, stdout, walkVars>>

\* case "href": the operands are URLs
StartHref ==
  /\ pc = "switch" /\ command = "href"
  /\ IF Len(filePaths) = 0 THEN Exit(1) ELSE pc' = "seed" /\ UNCHANGED exitCode
  /\ log' = Append(log, Ev("href", 0))
  /\ UNCHANGED <<fileVars, sb, err, argVars, clipVars, buildVars, opIdx, outVars, walkVars>>

\* mutant: the separator after the seed is left out
seedContent_NoSeparator(ok, current) == IF ok THEN current ELSE <<>>

\* `if err == nil { sb.WriteString(current); ... }`: what a clipboard read
\* (ok: it succeeded, returning current) seeds the builder with
seedContent(ok, current) ==
  IF ok
    THEN current \o (IF current # <<>> /\ ~HasSuffixNL(current) THEN <<NL>> ELSE <<>>)
    ELSE <<>>

\* mutant: the content is held whether or not the read succeeded
heldContent_IgnoresError(ok, current) == current

\* `if err == nil { previousContent = c }`
heldContent(ok, current) == IF ok THEN current ELSE <<>>

\* buildWithClipboardModes, `if appendMode { ... }`: seed the builder with the
\* clipboard; a failed read leaves it empty
SeedAppend ==
  /\ pc = "seed"
  /\ IF appendMode
       THEN \E ok \in BOOLEAN :
              /\ sb' = sb \o seedContent(ok, clipboard)
              /\ log' = Append(log, Ev(IF ok THEN "read:append" ELSE "read:append:failed", 0))
       ELSE UNCHANGED <<sb, log>>
  /\ pc' = "hold"
  /\ UNCHANGED <<fileVars, err, argVars, clipVars, buildVars, opIdx, exitCode, outVars, walkVars>>

\* `if prependMode { ... }`: hold the clipboard aside, then invoke the producer
HoldPrepend ==
  /\ pc = "hold"
  /\ IF prependMode
       THEN \E ok \in BOOLEAN :
              /\ previousContent' = heldContent(ok, clipboard)
              /\ log' = Append(log, Ev(IF ok THEN "read:prepend" ELSE "read:prepend:failed", 0))
       ELSE UNCHANGED <<previousContent, log>>
  /\ seedLen' = Len(sb)
  /\ opIdx' = 1
  /\ pc' = "operand"
  /\ UNCHANGED <<fileVars, sb, err, argVars, clipVars, final, exitCode, outVars, walkVars>>

\* normalizeURL
normalizeURL(raw) ==
  IF raw = <<>> THEN raw
  ELSE IF raw[1] \in {"http://", "https://"} THEN raw
  ELSE <<"https://">> \o raw

HrefTag == [c |-> "href: ", n |-> 6]

\* fetchIntoBuilder from the response on: [err, sb].  code 0 stands for a
\* request that failed without a response.
fetchIntoBuilder(u, code, body, sb0) ==
  IF code = 0 THEN [err |-> "href: request failed", sb |-> sb0]
  ELSE IF code < 200 \/ code > 299 THEN [err |-> "href: bad status", sb |-> sb0]
  ELSE LET r == readUpTo(body, maxFetchBytes)
       IN IF r.err # "" THEN [err |-> "href: reading body failed", sb |-> sb0]
          ELSE [err |-> "",
                sb |-> (((sb0 \o <<HrefTag>>) \o (Text(u) \o <<NL>>)) \o r.b)
                         \o (IF ByteLen(r.b) > 0 /\ r.b[Len(r.b)] # NL
                               THEN <<NL>> ELSE <<>>)]

\* what a web server may answer
WebBodies ==
  { <<>>, <<B("h")>>, <<B("h"), NL>>, <<B("#"), NL, B("h"), NL>>,
    <<FILL(maxFetchBytes - 1), NL>>, <<FILL(maxFetchBytes), NL>> }

WebResponses ==
  {[code |-> 200, body |-> b] : b \in WebBodies}
    \cup {[code |-> 404, body |-> <<B("h")>>], [code |-> 0, body |-> <<>>]}

\* the href producer, one URL: `for _, raw := range filePaths { ... }`
FetchURL ==
  /\ pc = "operand" /\ command = "href"
  /\ opIdx <= Len(filePaths)
  /\ \E web \in WebResponses :
       LET r == fetchIntoBuilder(normalizeURL(filePaths[opIdx]), web.code, web.body, sb)
       IN /\ sb' = r.sb
          /\ err' = r.err
          /\ IF r.err = "" THEN opIdx' = opIdx + 1 /\ pc' = "operand"
                           ELSE UNCHANGED opIdx /\ pc' = "failed"
  /\ log' = Append(log, Ev("fetch", 0))
  /\ UNCHANGED <<fileVars, argVars, clipVars, buildVars, exitCode, outVars, walkVars>>

\* mutant: the held-aside content is attached before the new content
attach_Before(built, prepend, previous) ==
  IF prepend /\ previous # <<>> THEN previous \o built ELSE built

\* buildWithClipboardModes after the producer: finalContent
attach(built, prepend, previous) ==
  IF prepend /\ previous # <<>>
    THEN (built \o (IF built # <<>> /\ ~HasSuffixNL(built) THEN <<NL>> ELSE <<>>))
           \o previous
    ELSE built

\* the producer returned nil: attach the held-aside content and return
FinishBuild ==
  /\ pc = "operand"
  /\ opIdx > Len(filePaths)
  /\ final' = attach(sb, prependMode, previousContent)
  /\ pc' = "commit"
  /\ UNCHANGED <<fileVars, sb, err, argVars, clipVars, previousContent, seedLen,
                 opIdx, exitCode, outVars, log, walkVars>>

\* mutant: what was collected before the error is put on the clipboard
AbortBuild_CommitsPartial ==
  /\ pc = "failed"
  /\ clipboard' = sb
  /\ writes' = writes + 1
  /\ Exit(1)
  /\ UNCHANGED <<fileVars, sb, err, argVars, clip0, buildVars, opIdx, outVars, log, walkVars>>

\* the producer returned an error: buildWithClipboardModes returns it and main
\* prints it and exits with status 1
AbortBuild ==
  /\ pc = "failed"
  /\ Exit(1)
  /\ UNCHANGED <<fileVars, sb, err, argVars, clipVars, buildVars, opIdx, outVars, log, walkVars>>

\* clipboard.WriteAll(final)
Commit ==
  /\ pc = "commit"
  /\ writes' = writes + 1
  /\ \E ok \in BOOLEAN :
       IF ok THEN clipboard' = final /\ Exit(0)
             ELSE UNCHANGED clipboard /\ Exit(1)
  /\ log' = Append(log, Ev("write:clipboard", 0))
  /\ UNCHANGED <<fileVars, sb, err, argVars, clip0, buildVars, opIdx, outVars, walkVars>>

\* ------------------------------------------------------- the file system
\* The working directory /w is the repository root.  A local path is the
\* sequence of its names.

Dir == <<"d">>
FSDirs == {<<"d">>, <<"d", "x">>, <<"d", "z">>}
FSFiles == {<<"d", "g">>, <<"d", "u">>, <<"d", "x", "f">>, <<"d", "zz">>, <<"..", "e">>}

\* os.ReadDir: the names of a directory, sorted; d/z cannot be read
ReadDirFails(path) == path = <<"d", "z">>
ReadDir(path) ==
  IF path = <<"d">> THEN <<"g", "u", "x", "z", "zz">>
  ELSE IF path = <<"d", "x">> THEN <<"f">>
  ELSE <<>>

\* os.Open fails on d/u
OpenFails(path) == path = <<"d", "u">>

FileBytes(path) ==
  IF path = <<"d", "g">> THEN <<B("#"), B("c"), NL, NL, SP, B("g"), NL>>
  ELSE IF path = <<"d", "x", "f">> THEN <<B("f")>>
  ELSE IF path = <<"..", "e">> THEN <<B("e"), NL>>
  ELSE IF path = <<"d", "zz">> THEN <<B("z"), NL>>
  ELSE <<>>

\* the names of a path operand (the text between the separators)
RECURSIVE PathOf(_)
PathOf(arg) ==
  IF arg = <<>> THEN <<>>
  ELSE IF Head(arg) = "/" THEN PathOf(Tail(arg))
  ELSE <<Head(arg)>> \o PathOf(Tail(arg))

\* filepath.Abs, as bytes
RECURSIVE JoinBytes(_)
JoinBytes(path) ==
  IF path = <<>> THEN <<>> ELSE <<B("/"), T(Head(path))>> \o JoinBytes(Tail(path))

Abs(path) ==
  IF path # <<>> /\ Head(path) = ".." THEN JoinBytes(Tail(path))
  ELSE <<T("/w")>> \o JoinBytes(path)

\* isIgnored(repoRoot, ign, p): no matcher, or a path outside the root, is
\* never ignored; otherwise the matcher decides on the relative path
isIgnored(matcher, path) ==
  IF ~matcher.loaded THEN FALSE
  ELSE IF path # <<>> /\ Head(path) = ".." THEN FALSE
  ELSE path \in matcher.matches

\* ------------------------------------------------------------ GitHub specs

TrimTokLeft(q) == IF q # <<>> /\ Head(q) = " " THEN Tail(q) ELSE q
TrimTok(q) ==
  LET l == TrimTokLeft(q)
  IN IF l # <<>> /\ l[Len(l)] = " " THEN SubSeq(l, 1, Len(l) - 1) ELSE l

HasPrefixTok(q, pre) == Len(q) >= Len(pre) /\ SubSeq(q, 1, Len(pre)) = pre

\* mutant: only an operand with a scheme is taken for a GitHub location
looksLikeGitHubSpec_SchemeOnly(arg) ==
  LET q == TrimTok(arg)
  IN IF q = <<>> THEN FALSE
     ELSE IF HasPrefixTok(q, <<"https://", "github.com", "/">>)
               \/ HasPrefixTok(q, <<"http://", "github.com", "/">>) THEN TRUE
     ELSE FALSE

looksLikeGitHubSpec(arg) ==
  LET q == TrimTok(arg)
  IN IF q = <<>> THEN FALSE
     ELSE IF HasPrefixTok(q, <<"github.com", "/">>) THEN TRUE
     ELSE IF HasPrefixTok(q, <<"https://", "github.com", "/">>)
               \/ HasPrefixTok(q, <<"http://", "github.com", "/">>) THEN TRUE
     ELSE FALSE

\* strings.Split(p, "/") without the empty parts
RECURSIVE SplitSlash(_, _)
SplitSlash(q, cur) ==
  IF q = <<>> THEN (IF cur = <<>> THEN <<>> ELSE <<cur>>)
  ELSE IF Head(q) = "/"
         THEN (IF cur = <<>> THEN <<>> ELSE <<cur>>) \o SplitSlash(Tail(q), <<>>)
  ELSE SplitSlash(Tail(q), Append(cur, Head(q)))

splitPathKeepOrder(q) == SplitSlash(TrimTok(q), <<>>)

\* strings.Index(repo, "@"), 0 when absent
RECURSIVE IndexAt(_, _)
IndexAt(q, i) ==
  IF i > Len(q) THEN 0 ELSE IF q[i] = "@" THEN i ELSE IndexAt(q, i + 1)

\* url.Parse(u).Path: what follows the host, up to a query or a fragment
RECURSIVE UpToQuery(_)
UpToQuery(q) ==
  IF q = <<>> \/ Head(q) \in {"?", "#"} THEN <<>>
  ELSE <<Head(q)>> \o UpToQuery(Tail(q))

NoSpec == [err |-> "", Owner |-> <<>>, Repo |-> <<>>, Ref |-> <<>>, Path |-> <<>>, Label |-> <<>>]

\* mutant: an explicit tree/blob ref wins over the @ref of the repo segment
repoAtRef_MarkerWins(repo, ref) ==
  LET at == IndexAt(repo, 1)
  IN IF at = 0 THEN [repo |-> repo, ref |-> ref]
     ELSE [repo |-> SubSeq(repo, 1, at - 1),
           ref |-> IF ref # <<>> THEN ref ELSE SubSeq(repo, at + 1, Len(repo))]

\* `if at := strings.Index(repo, "@"); at != -1 { ... }`
repoAtRef(repo, ref) ==
  LET at == IndexAt(repo, 1)
  IN IF at = 0 THEN [repo |-> repo, ref |-> ref]
     ELSE [repo |-> SubSeq(repo, 1, at - 1), ref |-> SubSeq(repo, at + 1, Len(repo))]

\* parseGitHubSpec(raw); Path is the sequence of the sub-path's segments
parseGitHubSpec(arg) ==
  LET raw == TrimTok(arg)
      u == IF HasPrefixTok(raw, <<"github.com", "/">>) THEN <<"https://">> \o raw ELSE raw
      host == IF Len(u) >= 2 THEN u[2] ELSE ""
      segs == splitPathKeepOrder(UpToQuery(SubSeq(u, 3, Len(u))))
      marked == Len(segs) >= 4 /\ segs[3] \in {<<"tree">>, <<"blob">>}
      ref0 == IF marked THEN segs[4] ELSE <<>>
      subPath == IF marked THEN SubSeq(segs, 5, Len(segs))
                 ELSE IF Len(segs) > 2 THEN SubSeq(segs, 3, Len(segs))
                 ELSE <<>>
      rr == repoAtRef(segs[2], ref0)
  IN IF raw = <<>> THEN [NoSpec EXCEPT !.err = "github: empty spec"]
     ELSE IF \E j \in 1..Len(u) : u[j] = "%" THEN [NoSpec EXCEPT !.err = "github: invalid url"]
     ELSE IF host \notin {"github.com", "www.github.com"}
       THEN [NoSpec EXCEPT !.err = "github: expected github.com host"]
     ELSE IF Len(segs) < 2
       THEN [NoSpec EXCEPT !.err = "github: expected github.com/<owner>/<repo>"]
     ELSE [err |-> "", Owner |-> segs[1], Repo |-> rr.repo, Ref |-> rr.ref,
           Path |-> subPath, Label |-> raw]

\* --------------------------------------------------- the default producer

GithubTag == [c |-> "github: ", n |-> 8]

\* the default mode: loadGitIgnoreForCWD, then buildWithClipboardModes
StartCollect ==
  /\ pc = "switch" /\ command = ""
  /\ pc' = "seed"
  /\ log' = Append(log, Ev("collect", 0))
  /\ UNCHANGED <<fileVars, sb, err, argVars, clipVars, buildVars, opIdx, exitCode, outVars,
                 walkVars>>

RootTask(path) == [src |-> "root", type |-> "dir", path |-> path]

\* `for _, startPath := range filePaths`: classify the operand and start on
\* it.  A GitHub spec is parsed and labelled (fetchGitHubSpecIntoBuilder);
\* for a local path filepath.WalkDir calls os.Lstat, and hands a failure to
\* the callback, which skips it.
BeginOperand ==
  /\ pc = "operand" /\ command = ""
  /\ opIdx <= Len(filePaths)
  /\ LET startPath == filePaths[opIdx]
         sp == parseGitHubSpec(startPath)
         root == PathOf(startPath)
     IN IF looksLikeGitHubSpec(startPath) THEN
          IF sp.err # ""
            THEN /\ err' = sp.err /\ pc' = "failed"
                 /\ UNCHANGED <<sb, opIdx, todo, wtodo, ghSpec>>
            ELSE /\ sb' = (sb \o <<GithubTag>>) \o (Text(sp.Label) \o <<NL>>)
                 /\ ghSpec' = sp
                 /\ wtodo' = <<RootTask(sp.Path)>>
                 /\ pc' = "walk"
                 /\ UNCHANGED <<err, opIdx, todo>>
        ELSE IF root \notin FSDirs \cup FSFiles
          THEN /\ opIdx' = opIdx + 1
               /\ UNCHANGED <<sb, err, pc, todo, wtodo, ghSpec>>
          ELSE /\ todo' = <<root>>
               /\ pc' = "walkdir"
               /\ UNCHANGED <<sb, err, opIdx, wtodo, ghSpec>>
  /\ log' = Append(log, Ev("operand", opIdx))
  /\ UNCHANGED <<fileVars, argVars, clipVars, buildVars, exitCode, outVars, ign, reqs, resp>>

RECURSIVE Children(_, _)
Children(path, names) ==
  IF names = <<>> THEN <<>>
  ELSE <<Append(path, Head(names))>> \o Children(path, Tail(names))

\* what the WalkDir callback does with an entry: "skip" (ignored: SkipDir for
\* a directory, nil for a file), "descend" or "file" (processFile)
callback(path, isDir, inc, matcher) ==
  IF ~inc /\ isIgnored(matcher, path) THEN "skip"
  ELSE IF isDir THEN "descend"
  ELSE "file"

\* one call of the WalkDir callback (and, for a directory that is entered,
\* os.ReadDir; when that fails the callback is called again with the error
\* and skips)
Visit ==
  /\ pc = "walkdir" /\ todo # <<>>
  /\ LET path == Head(todo)
         what == callback(path, path \in FSDirs, includeIgnored, ign)
     IN /\ sb' = IF what = "file"
                   THEN processFile(Abs(path), ~OpenFails(path), FileBytes(path), sb)
                   ELSE sb
        /\ todo' = IF what = "descend" /\ ~ReadDirFails(path)
                     THEN Children(path, ReadDir(path)) \o Tail(todo)
                     ELSE Tail(todo)
        /\ log' = Append(log, Ev(what, opIdx))
  /\ UNCHANGED <<fileVars, err, pc, argVars, clipVars, buildVars, opIdx, exitCode, outVars,
                 ign, wtodo, reqs, ghSpec, resp>>

\* filepath.WalkDir returned (always nil: the callback returns no error)
EndWalkDir ==
  /\ pc = "walkdir" /\ todo = <<>>
  /\ opIdx' = opIdx + 1
  /\ pc' = "operand"
  /\ UNCHANGED <<fileVars, sb, err, argVars, clipVars, buildVars, exitCode, outVars, log,
                 walkVars>>

\* ---------------------------------------------------------- walkContents
\* A remote path is the sequence of its segments.  wtodo holds, in order,
\* what is still to be done for the operand: the rows of the listings being
\* iterated and the calls made for them.  An error ends the walk at once, as
\* every caller returns it unchanged.

Row(type, path) == [src |-> "row", type |-> type, path |-> path]

ListingNone == [kind |-> "none", items |-> <<>>, code |-> 0, body |-> <<>>, at |-> <<>>]
Listing(kind, items) == [ListingNone EXCEPT !.kind = kind, !.items = items]
RawResp(code, body) == [ListingNone EXCEPT !.kind = "raw", !.code = code, !.body = body]

\* mutant: an unsupported row of a listing is refused
listDispatch_Strict(type) ==
  IF type = "dir" THEN "walk" ELSE IF type = "file" THEN "fetch" ELSE "error"

\* `switch it.Type` over the rows of a listing
listDispatch(type) ==
  IF type = "dir" THEN "walk" ELSE IF type = "file" THEN "fetch" ELSE "skip"

\* `switch single.Type` over a single-entry response
singleDispatch(type) ==
  IF type = "dir" THEN "walk" ELSE IF type = "file" THEN "fetch" ELSE "error"

\* mutant: the files of a listing are fetched in a pass of their own, before
\* its directories are entered
walkContents_FilesFirst(r) ==
  IF r.kind = "error" THEN [err |-> "github: request failed", push |-> <<>>]
  ELSE IF r.kind = "toolarge" THEN [err |-> "github: response too large", push |-> <<>>]
  ELSE IF r.kind = "status" THEN [err |-> "github: bad status", push |-> <<>>]
  ELSE IF r.kind = "empty" THEN [err |-> "", push |-> <<>>]
  ELSE IF r.kind = "garbage" THEN [err |-> "github: decode failed", push |-> <<>>]
  ELSE IF r.kind = "list"
    THEN [err |-> "",
          push |-> SelectSeq(r.items, LAMBDA it : it.type = "file")
                     \o SelectSeq(r.items, LAMBDA it : it.type # "file")]
  ELSE IF singleDispatch(r.items[1].type) = "error"
    THEN [err |-> "github: unsupported content type", push |-> <<>>]
  ELSE [err |-> "", push |-> <<[r.items[1] EXCEPT !.src = "single"]>>]

\* walkContents from the response on: [err, push], push being the work the
\* response asks for
walkContents(r) ==
  IF r.kind = "error" THEN [err |-> "github: request failed", push |-> <<>>]
  ELSE IF r.kind = "toolarge" THEN [err |-> "github: response too large", push |-> <<>>]
  ELSE IF r.kind = "status" THEN [err |-> "github: bad status", push |-> <<>>]
  ELSE IF r.kind = "empty" THEN [err |-> "", push |-> <<>>]
  ELSE IF r.kind = "garbage" THEN [err |-> "github: decode failed", push |-> <<>>]
  ELSE IF r.kind = "list" THEN [err |-> "", push |-> r.items]
  ELSE IF singleDispatch(r.items[1].type) = "error"
    THEN [err |-> "github: unsupported content type", push |-> <<>>]
  ELSE [err |-> "", push |-> <<[r.items[1] EXCEPT !.src = "single"]>>]

\* strings.Join(segments, "/") as bytes
RECURSIVE JoinSegs(_)
JoinSegs(path) ==
  IF path = <<>> THEN <<>>
  ELSE Text(Head(path)) \o (IF Len(path) > 1 THEN <<B("/")>> ELSE <<>>) \o JoinSegs(Tail(path))

\* the label of a remote file: github.com/owner/repo[@ref]/path
remoteLabel(sp, path) ==
  (((<<T("github.com/")>> \o Text(sp.Owner)) \o (<<B("/")>> \o Text(sp.Repo)))
     \o (IF sp.Ref # <<>> THEN <<B("@")>> \o Text(sp.Ref) ELSE <<>>))
     \o (<<B("/")>> \o JoinSegs(path))

\* The answers of the listing service, by name: "narrow" is a small
\* repository, "all" is every answer shape walkContents distinguishes.
\* the service of this specification: the repository root lists a directory,
\* a file and a symlink, or is refused; a directory lists one file
Listings(path, n) ==
  IF path = <<>>
    THEN { Listing("status", <<>>),
           Listing("list", <<Row("dir", <<<<"a">>>>), Row("file", <<<<"f">>>>),
                             Row("symlink", <<<<"s">>>>)>>) }
    ELSE { Listing("list", <<Row("file", Append(path, <<"g">>))>>) }

Raws ==
  { RawResp(200, <<B("r"), NL>>), RawResp(404, <<>>),
    RawResp(200, <<FILL(maxFetchBytes), NL>>) }

\* listing requests after which the service describes no further directory
MaxReqs == 2

\* the entry types the walk distinguishes: dir, file, and one other
EntryTypes == {"dir", "file", "symlink"}

AllListings(path, n) ==
  LET types == IF n < MaxReqs THEN EntryTypes ELSE EntryTypes \ {"dir"}
      a == Append(path, <<"a">>)
      b == Append(path, <<"b">>)
  IN {Listing(kd, <<>>) : kd \in {"error", "toolarge", "status", "empty", "garbage", "list"}}
       \cup {Listing("list", <<Row(t1, a)>>) : t1 \in types}
       \cup {Listing("list", <<Row(t1, a), Row(t2, b)>>) : t1 \in types, t2 \in types}
       \cup {Listing("single", <<Row(t1, path)>>) : t1 \in types}

AllRaws ==
  { RawResp(200, <<B("r"), NL>>), RawResp(200, <<>>), RawResp(404, <<>>),
    RawResp(200, <<FILL(maxFetchBytes), NL>>) }

\* "tree": a repository two levels deep whose listings come in any order:
\* the directory the operand names lists up to two rows of any type, a
\* directory beneath it lists files and symlinks
TreeListings(path, n) ==
  LET types == IF path \in {<<>>, <<<<"p">>>>} THEN EntryTypes ELSE EntryTypes \ {"dir"}
      a == Append(path, <<"a">>)
      b == Append(path, <<"b">>)
  IN {Listing("list", <<>>)}
       \cup {Listing("list", <<Row(t1, a)>>) : t1 \in types}
       \cup {Listing("list", <<Row(t1, a), Row(t2, b)>>) : t1 \in types, t2 \in types}
       \cup {Listing("list", <<Row(t1, b), Row(t2, a)>>) : t1 \in types, t2 \in types}
       \cup {Listing("single", <<Row("file", path)>>)}

TreeRaws == {RawResp(200, <<B("r"), NL>>), RawResp(404, <<>>)}

ListingsOf(svc, path, n) ==
  IF svc = "all" THEN AllListings(path, n)
  ELSE IF svc = "tree" THEN TreeListings(path, n)
  ELSE Listings(path, n)
RawsOf(svc) == IF svc = "all" THEN AllRaws ELSE IF svc = "tree" THEN TreeRaws ELSE Raws

\* one step of the walk: a call of walkContents (the listing request and the
\* handling of its response), a call of fetchFileRaw, or a row that is skipped
WalkStep(svc) ==
  /\ pc = "walk" /\ wtodo # <<>>
  /\ LET t == Head(wtodo)
         how == IF t.src = "row" THEN listDispatch(t.type) ELSE singleDispatch(t.type)
     IN \/ /\ how = "walk"
           /\ \E r \in ListingsOf(svc, t.path, reqs) :
                LET w == walkContents(r)
                IN /\ resp' = [r EXCEPT !.at = t.path]
                   /\ err' = w.err
                   /\ IF w.err # "" THEN pc' = "failed" /\ UNCHANGED wtodo
                      ELSE pc' = "walk" /\ wtodo' = w.push \o Tail(wtodo)
                   /\ log' = Append(log, EvAt("list", opIdx, t.path,
                                              IF r.kind = "list" THEN r.items ELSE <<>>))
           /\ reqs' = reqs + 1
           /\ UNCHANGED sb
        \/ /\ how = "fetch"
           /\ \E r \in RawsOf(svc) :
                LET f == fetchFileRaw(remoteLabel(ghSpec, t.path), r.code, r.body, sb)
                IN /\ resp' = [r EXCEPT !.at = t.path]
                   /\ err' = f.err
                   /\ sb' = f.sb
                   /\ IF f.err # "" THEN pc' = "failed" /\ UNCHANGED wtodo
                      ELSE pc' = "walk" /\ wtodo' = Tail(wtodo)
           /\ log' = Append(log, EvAt("raw", opIdx, t.path, <<>>))
           /\ UNCHANGED reqs
        \/ /\ how = "skip"
           /\ wtodo' = Tail(wtodo)
           /\ log' = Append(log, Ev("skiprow", opIdx))
           /\ UNCHANGED <<sb, err, pc, reqs, resp>>
        \/ /\ how = "error"
           /\ err' = "github: unsupported content type"
           /\ pc' = "failed"
           /\ log' = Append(log, Ev("badrow", opIdx))
           /\ UNCHANGED <<sb, wtodo, reqs, resp>>
  /\ UNCHANGED <<fileVars, argVars, clipVars, buildVars, opIdx, exitCode, outVars, ign, todo,
                 ghSpec>>

\* fetchGitHubSpecIntoBuilder returned nil
EndWalk ==
  /\ pc = "walk" /\ wtodo = <<>>
  /\ opIdx' = opIdx + 1
  /\ pc' = "operand"
  /\ UNCHANGED <<fileVars, sb, err, argVars, clipVars, buildVars, exitCode, outVars, log,
                 walkVars>>

\* ------------------------------------------------------------------------
\* Spec: one run of the program.
\* ------------------------------------------------------------------------

\* what the clipboard may hold when the process starts
Clips == {<<>>, <<B("p")>>, <<B("p"), NL>>}

\* the matchers of this specification: none loaded, and one that ignores d/x
Matchers ==
  { [loaded |-> FALSE, matches |-> {}],
    [loaded |-> TRUE, matches |-> {<<"d", "x">>, <<"d", "x", "f">>}] }

Operands ==
  { <<"d">>, <<"n">>, <<"github.com", "/", "o", "/", "r">>, <<"github.com", "/", "o">> }

Args == FlagArgs \cup CommandArgs \cup Operands

Init ==
  /\ stage = "run" /\ data = <<>> /\ status = 0 /\ again = <<>> /\ rmax = 0 /\ rout = <<>>
  /\ sb = <<>> /\ err = ""
  /\ pc = "args" /\ nargs = 0
  /\ appendMode = FALSE /\ prependMode = FALSE /\ includeIgnored = FALSE
  /\ command = "" /\ writeTarget = <<>> /\ filePaths = <<>>
  /\ clipboard \in Clips /\ clip0 = clipboard /\ writes = 0
  /\ previousContent = <<>> /\ seedLen = 0 /\ final = <<>>
  /\ opIdx = 0 /\ exitCode = -1 /\ stdout = <<>> /\ fileOut = <<>> /\ log = <<>>
  /\ ign \in Matchers
  /\ todo = <<>> /\ wtodo = <<>> /\ reqs = 0
  /\ ghSpec = NoSpec /\ resp = ListingNone

Next ==
  \/ ParseArg(Args) \/ ParseWriteLast \/ EndArgs
  \/ DoClear \/ DoEmit \/ DoWrite \/ StartHref \/ StartCollect
  \/ SeedAppend \/ HoldPrepend
  \/ FetchURL
  \/ BeginOperand \/ Visit \/ EndWalkDir
  \/ WalkStep("narrow") \/ EndWalk
  \/ FinishBuild \/ AbortBuild \/ Commit

Spec == Init /\ [][Next]_vars

\* ------------------------------------------------------------ the claims

Logged(what) == \E j \in 1..Len(log) : log[j].e = what

\* the position in the log of the first entry among `whats` (0: none)
RECURSIVE FirstAt(_, _)
FirstAt(whats, j) ==
  IF j > Len(log) THEN 0 ELSE IF log[j].e \in whats THEN j ELSE FirstAt(whats, j + 1)

AppendReadAt == FirstAt({"read:append", "read:append:failed"}, 1)
PrependReadAt == FirstAt({"read:prepend", "read:prepend:failed"}, 1)

\* the prior clipboard content, the seed and the newly produced content
Prior == clip0
Seed == SubSeq(sb, 1, seedLen)
New == SubSeq(sb, seedLen + 1, Len(sb))
Sep(text) == IF text # <<>> /\ ~HasSuffixNL(text) THEN <<NL>> ELSE <<>>
SeedOf(ok, prior) == IF ok THEN prior \o Sep(prior) ELSE <<>>
HeldOf(ok, prior) == IF ok THEN prior ELSE <<>>
Built == pc = "commit" \/ (pc = "exit" /\ Logged("write:clipboard"))

\* C1: once an operand has failed fatally (the producer of href or of the
\* default mode returned an error), whatever its position and whatever was
\* collected before it, clipboard.WriteAll is never called, the clipboard
\* keeps its prior value, and the process can only exit, with status 1.
Thm_C1_FatalOperandWritesNothing ==
  err # "" =>
    /\ writes = 0
    /\ clipboard = clip0
    /\ ~Logged("write:clipboard")
    /\ pc \in {"failed", "exit"}
    /\ pc = "exit" => exitCode = 1

\* the second operand failed after the first had been collected
Wit_C1 ==
  /\ err # "" /\ pc = "exit"
  /\ opIdx = 2
  /\ Len(sb) > seedLen
  /\ clip0 # <<>>

\* C2: with a successful read of the prior content, append alone yields the
\* prior content, a newline when it is non-empty and lacks one, then the new
\* content; prepend alone yields the new content, a newline when it is
\* non-empty and lacks one, then the prior content.
Thm_C2_AppendPrependLayout ==
  Built =>
    /\ (appendMode /\ ~prependMode /\ Logged("read:append"))
         => final = (Prior \o Sep(Prior)) \o New
    /\ (prependMode /\ ~appendMode /\ Logged("read:prepend"))
         => final = (New \o Sep(New)) \o Prior

\* append alone over a clipboard without a final newline, with new content
Wit_C2 ==
  /\ pc = "commit" /\ appendMode /\ ~prependMode /\ Logged("read:append")
  /\ Prior = <<B("p")>> /\ New # <<>>

\* C3: with both modes set the append read comes first, then the prepend
\* read, both before the producer starts; the seed is in the builder before
\* production and the held content is attached after it, so the result is the
\* seed, the new content in one block, then the held content.
Thm_C3_BothModesOrder ==
  (appendMode /\ prependMode) =>
    /\ pc \in {"operand", "walk", "walkdir", "failed", "commit"} =>
         /\ 0 < AppendReadAt /\ AppendReadAt < PrependReadAt
         /\ \A j \in 1..Len(log) :
              log[j].e \in {"operand", "fetch"} => j > PrependReadAt
         /\ Seed = SeedOf(Logged("read:append"), Prior)
         /\ previousContent = HeldOf(Logged("read:prepend"), Prior)
    /\ Built => final = ((Seed \o New) \o Sep(Seed \o New)) \o previousContent

\* both reads succeeded and something was produced between seed and held content
Wit_C3 ==
  /\ pc = "commit" /\ appendMode /\ prependMode
  /\ Logged("read:append") /\ Logged("read:prepend")
  /\ Prior # <<>> /\ New # <<>>

\* C4: a failed clipboard read is swallowed: the build goes on to the
\* producer without error, and the result is what an empty clipboard gives
\* for that read.
Thm_C4_FailedReadIsEmptyClipboard ==
  /\ (Len(log) > 0 /\ log[Len(log)].e \in {"read:append:failed", "read:prepend:failed"})
       => (pc \in {"hold", "operand", "commit"} /\ err = "" /\ exitCode = -1)
  /\ (Built /\ (Logged("read:append:failed") \/ Logged("read:prepend:failed"))) =>
       /\ err = ""
       /\ final = ((SeedOf(Logged("read:append"), Prior) \o New)
                     \o Sep(SeedOf(Logged("read:append"), Prior) \o New))
                    \o HeldOf(Logged("read:prepend"), Prior)
       /\ (~Logged("read:append") /\ ~Logged("read:prepend")) => final = New

\* both reads failed over a non-empty clipboard and the build completed
Wit_C4 ==
  /\ pc = "commit"
  /\ Logged("read:append:failed") /\ Logged("read:prepend:failed")
  /\ Prior # <<>> /\ New # <<>>

\* ------------------------------------------------------------------------
\* SpecLocal: runs of the default mode over local operands, for every
\* matcher over the paths of the tree.
\* ------------------------------------------------------------------------

IgnorablePaths == {<<"d">>, <<"d", "x">>, <<"d", "x", "f">>, <<"d", "g">>}

LocalMatchers ==
  {[loaded |-> FALSE, matches |-> {}]}
    \cup {[loaded |-> TRUE, matches |-> m] : m \in SUBSET IgnorablePaths}

LocalArgs ==
  { <<"--includeIgnore">>, <<"d">>, <<"d", "/", "x">>, <<"d", "/", "x", "/", "f">>,
    <<"d", "/", "g">>, <<"..", "/", "e">>, <<"n">> }

InitLocal ==
  /\ stage = "run" /\ data = <<>> /\ status = 0 /\ again = <<>> /\ rmax = 0 /\ rout = <<>>
  /\ sb = <<>> /\ err = ""
  /\ pc = "args" /\ nargs = 0
  /\ appendMode = FALSE /\ prependMode = FALSE /\ includeIgnored = FALSE
  /\ command = "" /\ writeTarget = <<>> /\ filePaths = <<>>
  /\ clipboard = <<>> /\ clip0 = clipboard /\ writes = 0
  /\ previousContent = <<>> /\ seedLen = 0 /\ final = <<>>
  /\ opIdx = 0 /\ exitCode = -1 /\ stdout = <<>> /\ fileOut = <<>> /\ log = <<>>
  /\ ign \in LocalMatchers
  /\ todo = <<>> /\ wtodo = <<>> /\ reqs = 0
  /\ ghSpec = NoSpec /\ resp = ListingNone

NextLocal ==
  \/ ParseArg(LocalArgs) \/ EndArgs \/ StartCollect
  \/ SeedAppend \/ HoldPrepend
  \/ BeginOperand \/ Visit \/ EndWalkDir
  \/ FinishBuild \/ Commit

SpecLocal == InitLocal /\ [][NextLocal]_vars

\* the header of local file `path` is in the output
FileHeader(path) == (<<FileTag>> \o Abs(path)) \o <<NL>>
Appears(path) ==
  \E j \in 1..Len(sb) :
    /\ j + Len(FileHeader(path)) - 1 <= Len(sb)
    /\ SubSeq(sb, j, j + Len(FileHeader(path)) - 1) = FileHeader(path)

Beneath(path, dir) == Len(path) > Len(dir) /\ SubSeq(path, 1, Len(dir)) = dir

\* C8 (as claimed): without --includeIgnore, no file beneath a directory
\* that the matcher reports as ignored appears in the output, whatever the
\* operands are.
CE_C8_NothingBeneathIgnoredDir ==
  (pc # "args" /\ ~includeIgnored) =>
    \A dir \in FSDirs : \A f \in FSFiles :
      (isIgnored(ign, dir) /\ Beneath(f, dir)) => ~Appears(f)

\* ------------------------------------------------------------------------
\* SpecWalk: the collection of one remote operand, for every answer the
\* listing service may give.
\* ------------------------------------------------------------------------

WalkOperands ==
  { <<"github.com", "/", "o", "/", "r">>,
    <<"https://", "github.com", "/", "o", "/", "r", "/", "tree", "/", "main", "/", "p">> }

InitWalk ==
  /\ stage = "run" /\ data = <<>> /\ status = 0 /\ again = <<>> /\ rmax = 0 /\ rout = <<>>
  /\ sb = <<>> /\ err = ""
  /\ pc = "operand" /\ nargs = 1
  /\ appendMode = FALSE /\ prependMode = FALSE /\ includeIgnored = FALSE
  /\ command = "" /\ writeTarget = <<>>
  /\ \E op \in WalkOperands : filePaths = <<op>>
  /\ clipboard = <<>> /\ clip0 = clipboard /\ writes = 0
  /\ previousContent = <<>> /\ seedLen = 0 /\ final = <<>>
  /\ opIdx = 1 /\ exitCode = -1 /\ stdout = <<>> /\ fileOut = <<>>
  /\ log = <<Ev("collect", 0)>>
  /\ ign = [loaded |-> FALSE, matches |-> {}]
  /\ todo = <<>> /\ wtodo = <<>> /\ reqs = 0
  /\ ghSpec = NoSpec /\ resp = ListingNone

NextWalk ==
  \/ BeginOperand
  \/ WalkStep("all") \/ EndWalk
  \/ FinishBuild \/ AbortBuild \/ Commit

SpecWalk == InitWalk /\ [][NextWalk]_vars

LastEvent == IF log = <<>> THEN "" ELSE log[Len(log)].e

\* C10: a row of a listing is dispatched by its type: dir is listed at the
\* row's path, file is fetched, anything else is skipped without error and
\* without output; a single-entry response of type dir is listed, of type
\* file fetched, and of any other type is a fatal error.  An unsupported
\* type is fatal only as a single-entry response.
Thm_C10_DispatchByType ==
  [][ (pc = "walk" /\ wtodo # <<>>) =>
        LET t == Head(wtodo)
        IN /\ (t.src = "row" /\ t.type \notin {"dir", "file"}) =>
                /\ sb' = sb /\ err' = "" /\ pc' = "walk"
                /\ wtodo' = Tail(wtodo) /\ reqs' = reqs
           /\ t.type = "dir" =>
                /\ reqs' = reqs + 1 /\ resp'.at = t.path
                /\ resp'.kind \notin {"raw", "none"}
           /\ t.type = "file" =>
                /\ reqs' = reqs /\ resp'.at = t.path /\ resp'.kind = "raw"
           /\ (t.type = "dir" /\ resp'.kind = "single") =>
                LET one == resp'.items[1]
                IN /\ one.type \in {"dir", "file"} =>
                        /\ err' = "" /\ pc' = "walk"
                        /\ wtodo' = <<[src |-> "single", type |-> one.type, path |-> one.path]>>
                                      \o Tail(wtodo)
                   /\ one.type \notin {"dir", "file"} =>
                        /\ err' = "github: unsupported content type" /\ pc' = "failed"
           /\ err' = "github: unsupported content type" =>
                (t.type = "dir" /\ resp'.kind = "single")
    ]_vars

\* a symlink row of a listing has just been skipped and the walk goes on
Wit_C10 ==
  /\ pc = "walk" /\ LastEvent = "skiprow" /\ err = ""
  /\ wtodo # <<>> /\ Head(wtodo).src = "row"

\* ------------------------------------------------------------------------
\* SpecOrder: the collection of one remote operand from a repository whose
\* listings come in any order.
\* ------------------------------------------------------------------------

NextOrder ==
  \/ BeginOperand
  \/ WalkStep("tree") \/ EndWalk
  \/ FinishBuild \/ AbortBuild \/ Commit

SpecOrder == InitWalk /\ [][NextOrder]_vars

IsPrefix(p, q) == Len(p) <= Len(q) /\ SubSeq(q, 1, Len(p)) = p

\* some listing of the run returned a row that leads to p before a row that
\* leads to q
ListedBefore(p, q) ==
  \E l \in 1..Len(log) :
    /\ log[l].e = "list"
    /\ \E m \in 1..Len(log[l].rows) : \E n \in 1..Len(log[l].rows) :
         /\ m < n
         /\ IsPrefix(log[l].rows[m].path, p)
         /\ IsPrefix(log[l].rows[n].path, q)

RawAt == {j \in 1..Len(log) : log[j].e = "raw"}
\* the fetches that wrote a segment: all but a last, failed one
Fetched == {j \in RawAt : ~(j = Len(log) /\ err # "")}
TagAt == {i \in 1..Len(sb) : sb[i] = FileTag}
Rank(S, x) == Cardinality({y \in S : y <= x})

\* C11: the files of a remote operand are fetched, and their segments stand
\* in the output, in depth-first pre-order of the listings: of two files,
\* the one reached through the earlier row of their common listing comes
\* first, whatever the types of the rows.
Thm_C11_PreOrderOfListings ==
  /\ \A j \in RawAt : \A k \in RawAt :
       j < k => ListedBefore(log[j].at, log[k].at)
  /\ Cardinality(TagAt) = Cardinality(Fetched)
  /\ \A j \in Fetched : \A i \in TagAt :
       Rank(Fetched, j) = Rank(TagAt, i) =>
         LET label == remoteLabel(ghSpec, log[j].at) \o <<NL>>
         IN /\ i + Len(label) <= Len(sb)
            /\ SubSeq(sb, i + 1, i + Len(label)) = label

\* a directory listed before a file was fully collected first: a file
\* beneath row 1 (a directory) and then the file of row 2 have been written
Wit_C11 ==
  /\ pc = "walk" /\ err = ""
  /\ \E l \in 1..Len(log) :
       /\ log[l].e = "list" /\ Len(log[l].rows) = 2
       /\ log[l].rows[1].type = "dir" /\ log[l].rows[2].type = "file"
       /\ log[l].rows[1].path[Len(log[l].rows[1].path)] = <<"b">>
       /\ \E j \in Fetched : \E k \in Fetched :
            /\ j < k
            /\ Len(log[j].at) > Len(log[l].rows[1].path)
            /\ IsPrefix(log[l].rows[1].path, log[j].at)
            /\ log[k].at = log[l].rows[2].path

\* ------------------------------------------------------------------------
\* SpecParse: the producer at one operand that names a GitHub location, for
\* every path of up to MaxSegs segments.
\* ------------------------------------------------------------------------

\* segments of the paths tried
MaxSegs == 5

\* the segments an operand is made of: a plain name, a marker, a name with
\* @ref, a bare @ref, and the empty segment of a doubled slash
SegAlphabet ==
  { <<"o">>, <<"v">>, <<"tree">>, <<"blob">>, <<"r", "@", "v">>, <<"@", "v">>, <<>> }

RECURSIVE SlashJoin(_)
SlashJoin(segs) ==
  IF segs = <<>> THEN <<>> ELSE (<<"/">> \o Head(segs)) \o SlashJoin(Tail(segs))

ParseInputs ==
  { pre \o SlashJoin(segs) :
      pre \in {<<"github.com">>, <<"https://", "github.com">>},
      segs \in SeqsUpTo(SegAlphabet, MaxSegs) }

InitParse ==
  /\ stage = "run" /\ data = <<>> /\ status = 0 /\ again = <<>> /\ rmax = 0 /\ rout = <<>>
  /\ sb = <<>> /\ err = ""
  /\ pc = "operand" /\ nargs = 1
  /\ appendMode = FALSE /\ prependMode = FALSE /\ includeIgnored = FALSE
  /\ command = "" /\ writeTarget = <<>>
  /\ \E op \in ParseInputs : filePaths = <<op>>
  /\ clipboard = <<>> /\ clip0 = clipboard /\ writes = 0
  /\ previousContent = <<>> /\ seedLen = 0 /\ final = <<>>
  /\ opIdx = 1 /\ exitCode = -1 /\ stdout = <<>> /\ fileOut = <<>>
  /\ log = <<Ev("collect", 0)>>
  /\ ign = [loaded |-> FALSE, matches |-> {}]
  /\ todo = <<>> /\ wtodo = <<>> /\ reqs = 0
  /\ ghSpec = NoSpec /\ resp = ListingNone

NextParse == BeginOperand

SpecParse == InitParse /\ [][NextParse]_vars

\* the operand has been classified as remote and parsed
Parsed == pc \in {"walk", "failed"} /\ LastEvent = "operand"

\* the segments after the host, and what follows owner and repo
Segs == splitPathKeepOrder(SubSeq(filePaths[1], IF filePaths[1][1] = "github.com" THEN 2 ELSE 3,
                                  Len(filePaths[1])))
Rest == SubSeq(Segs, 3, Len(Segs))
IsMarker(seg) == seg \in {<<"tree">>, <<"blob">>}
HasAt(seg) == \E i \in 1..Len(seg) : seg[i] = "@"
BeforeAt(seg) == SubSeq(seg, 1, (CHOOSE i \in 1..Len(seg) :
                                   seg[i] = "@" /\ \A j \in 1..(i - 1) : seg[j] # "@") - 1)
AfterAt(seg) == SubSeq(seg, 1 + (CHOOSE i \in 1..Len(seg) :
                                   seg[i] = "@" /\ \A j \in 1..(i - 1) : seg[j] # "@"), Len(seg))

\* what the parse must return when `marked` says whether the marker rule
\* applies to Rest
ParsesAs(marked) ==
  /\ Len(Segs) < 2 => (pc = "failed" /\ err # "")
  /\ Len(Segs) >= 2 =>
       /\ pc = "walk" /\ err = ""
       /\ ghSpec.Owner = Segs[1]
       /\ ghSpec.Path = (IF marked THEN SubSeq(Rest, 3, Len(Rest)) ELSE Rest)
       /\ IF HasAt(Segs[2])
            THEN ghSpec.Repo = BeforeAt(Segs[2]) /\ ghSpec.Ref = AfterAt(Segs[2])
            ELSE /\ ghSpec.Repo = Segs[2]
                 /\ ghSpec.Ref = (IF marked /\ Len(Rest) >= 2 THEN Rest[2] ELSE <<>>)

\* C12 (as claimed): the marker rule applies whenever rest[0] is tree or blob
CE_C12_MarkerAlwaysTakesRef ==
  Parsed => ParsesAs(Rest # <<>> /\ IsMarker(Rest[1]))

\* C12 (amended): fewer than two segments is a parse error; when rest[0] is
\* tree or blob and a segment follows it, that segment is the ref and what
\* follows is the sub-path; otherwise (a lone trailing marker included) all
\* of rest is the sub-path and there is no marker ref; an @ in the repo
\* segment splits it into repo and ref, and that ref replaces the marker's.
Thm_C12_ParseBySegments ==
  Parsed => ParsesAs(Len(Rest) >= 2 /\ IsMarker(Rest[1]))

\* a marker ref and an @ref together: the @ref is the one returned
Wit_C12 ==
  /\ Parsed /\ pc = "walk"
  /\ Len(Rest) >= 3 /\ IsMarker(Rest[1]) /\ Rest[2] = <<"o">>
  /\ Segs[2] = <<"r", "@", "v">>
  /\ ghSpec.Ref = <<"v">> /\ ghSpec.Path # <<>>

\* C13 (as claimed): a spec returned without error has a non-empty owner and
\* a non-empty repo
CE_C13_OwnerAndRepoNonEmpty ==
  (Parsed /\ pc = "walk") => (ghSpec.Owner # <<>> /\ ghSpec.Repo # <<>>)

\* ---- C14 ----

\* the operand begins with a recognized GitHub host prefix
HostPrefixed(arg) ==
  \/ Len(arg) >= 2 /\ arg[1] = "github.com" /\ arg[2] = "/"
  \/ Len(arg) >= 3 /\ arg[1] \in {"https://", "http://"} /\ arg[2] = "github.com" /\ arg[3] = "/"

\* the events of reading: a visit of a local entry, a remote request or row
IOEvents == {"skip", "descend", "file", "list", "raw", "skiprow", "badrow"}
OperandEvents == {j \in 1..Len(log) : log[j].e = "operand"}
Collecting == command = "" /\ pc \in {"operand", "walkdir", "walk"}

\* C14: in collect-and-merge the operands are taken one at a time in
\* argument order.  The k-th operand to be started is argument k; an operand
\* with a GitHub host prefix goes to the remote collector and never to the
\* local walk; every visit or request belongs to the operand that was
\* started last, after its classification; the next operand starts only
\* when the work of the current one is used up; and output is only ever
\* appended, by the current operand, so that the segments of operand i stand
\* before those of operand j for i < j.
Thm_C14_OperandsInOrder ==
  [][ Collecting =>
        /\ IsPrefix(sb, sb')
        /\ opIdx' \in {opIdx, opIdx + 1}
        /\ opIdx' = opIdx + 1 => (todo = <<>> /\ wtodo = <<>> /\ sb' = sb)
        /\ (pc = "operand" /\ opIdx <= Len(filePaths) /\ HostPrefixed(filePaths[opIdx])) =>
             (pc' \in {"walk", "failed"} /\ todo' = <<>> /\ log' = Append(log, Ev("operand", opIdx)))
        /\ sb' # sb => (Len(log') = Len(log) + 1 /\ log'[Len(log')].i = opIdx /\ opIdx' = opIdx)
        /\ Len(log') > Len(log) =>
             LET ev == log'[Len(log')]
             IN /\ ev.e = "operand" =>
                     (ev.i = Cardinality(OperandEvents) + 1 /\ ev.i = opIdx /\ pc = "operand")
                /\ ev.e \in IOEvents =>
                     /\ ev.i = opIdx
                     /\ \E j \in OperandEvents : log[j].i = opIdx
                     /\ \A j \in OperandEvents : log[j].i <= opIdx
    ]_vars

\* a local operand and then a remote one have both written their segments
Wit_C14 ==
  /\ pc = "commit" /\ command = ""
  /\ \E j \in 1..Len(log) : \E k \in 1..Len(log) :
       /\ j < k
       /\ log[j].e = "file" /\ log[j].i = 1
       /\ log[k].e = "raw" /\ log[k].i = 2

\* ---- C15 ----

\* no matcher is in the way of the walk
Unfiltered == includeIgnored \/ ~ign.loaded

\* C15: a skippable local error never aborts the run.  No run over local
\* operands fails; a directory that cannot be read, or an operand that does
\* not exist, adds nothing to the output and the walk goes on with the next
\* entry or operand; a file that cannot be opened adds exactly its header
\* line and the walk goes on; and when the producer is done every file at or
\* beneath an operand is in the output (with no matcher in the way), those
\* listed after a failed entry included.
Thm_C15_SkippableErrorsDoNotAbort ==
  /\ [](/\ err = "" /\ pc # "failed"
        /\ (pc = "commit" /\ Unfiltered) =>
             \A j \in 1..Len(filePaths) : \A f \in FSFiles :
               IsPrefix(PathOf(filePaths[j]), f) => Appears(f))
  /\ [][ /\ (pc = "walkdir" /\ todo # <<>> /\ ReadDirFails(Head(todo))) =>
              (sb' = sb /\ todo' = Tail(todo) /\ pc' = "walkdir")
         /\ (pc = "operand" /\ opIdx <= Len(filePaths)
               /\ PathOf(filePaths[opIdx]) \notin FSDirs \cup FSFiles) =>
              (sb' = sb /\ opIdx' = opIdx + 1 /\ pc' = "operand")
         /\ (pc = "walkdir" /\ todo # <<>> /\ OpenFails(Head(todo))
               /\ (Unfiltered \/ ~isIgnored(ign, Head(todo)))) =>
              /\ sb' = sb \o FileHeader(Head(todo))
              /\ todo' = Tail(todo) /\ pc' = "walkdir"
       ]_vars

\* d was walked, with its unreadable directory and its unopenable file, and
\* the entry after them and the operand after d are in the output
Wit_C15 ==
  /\ pc = "exit" /\ writes = 1 /\ Unfiltered
  /\ Len(filePaths) = 2 /\ filePaths[1] = <<"d">> /\ filePaths[2] = <<"..", "/", "e">>
  /\ Appears(<<"d", "u">>) /\ Appears(<<"d", "zz">>) /\ Appears(<<"..", "e">>)

\* ---- C16 ----

\* C16 (as claimed): the remote collection of an operand ends after finitely
\* many listing requests and does not ask for the same path forever: every
\* answered listing request leaves the walk with other work than it had
\* before the request.
CE_C16_EveryListingMakesProgress ==
  [][ (pc = "walk" /\ pc' = "walk" /\ reqs' = reqs + 1) => wtodo' # wtodo ]_vars

\* ---- C17 ----

\* the parsing rule of the claim for one token: a flag is a flag wherever it
\* stands; a command word selects the command when nothing but flags came
\* before it (write taking the path that follows it); any other token is an
\* operand
ClaimedParse(arg) ==
  IF arg = <<"--append">> THEN
    /\ appendMode' /\ nargs' = nargs + 1
    /\ UNCHANGED <<prependMode, includeIgnored, command, writeTarget, filePaths>>
  ELSE IF arg = <<"--prepend">> THEN
    /\ prependMode' /\ nargs' = nargs + 1
    /\ UNCHANGED <<appendMode, includeIgnored, command, writeTarget, filePaths>>
  ELSE IF arg = <<"--includeIgnore">> THEN
    /\ includeIgnored' /\ nargs' = nargs + 1
    /\ UNCHANGED <<appendMode, prependMode, command, writeTarget, filePaths>>
  ELSE IF arg \in CommandArgs /\ command = "" /\ filePaths = <<>> THEN
    /\ command' = arg[1]
    /\ \/ nargs' = nargs + 1 /\ UNCHANGED writeTarget
       \/ arg = <<"write">> /\ nargs' = nargs + 2 /\ writeTarget' \in Args \ FlagArgs
    /\ UNCHANGED <<appendMode, prependMode, includeIgnored, filePaths>>
  ELSE
    /\ filePaths' = Append(filePaths, arg) /\ nargs' = nargs + 1
    /\ UNCHANGED <<appendMode, prependMode, includeIgnored, command, writeTarget>>

ActionEvents == {"clear", "emit", "write", "href", "collect"}
ActionsRun == {j \in 1..Len(log) : log[j].e \in ActionEvents}

\* C17 (as claimed): every token is parsed by the rule above, and a run that
\* was given arguments performs exactly one of clear, emit, write, href and
\* collect-and-merge: the selected command if there is one, collection
\* otherwise.
CE_C17_ParsedAsClaimed ==
  /\ [][ (pc = "args" /\ nargs' > nargs) => \E arg \in Args : ClaimedParse(arg) ]_vars
  /\ [](/\ Cardinality(ActionsRun) <= 1
        /\ \A j \in ActionsRun : log[j].e = (IF command = "" THEN "collect" ELSE command)
        /\ (pc = "exit" /\ nargs > 0) => Cardinality(ActionsRun) = 1)

\* ------------------------------------------------------------------------
\* SpecRead: readUpTo over bodies around its ceiling.
\* ------------------------------------------------------------------------

ReadInputs ==
  SeqsUpTo({B("a"), NL}, MaxCeil + 2)
    \cup { <<FILL(maxFetchBytes)>>, <<FILL(maxFetchBytes - 1), B("a")>>,
           <<FILL(maxFetchBytes), B("a")>>, <<B("a"), FILL(maxFetchBytes)>>,
           <<FILL(maxFetchBytes + 7)>>, <<FILL(maxFetchBytes - 1)>> }

InitRead ==
  /\ stage = "start"
  /\ data \in ReadInputs
  /\ rmax \in (0..MaxCeil) \cup {maxFetchBytes}
  /\ rout = <<>>
  /\ status = 0 /\ sb = <<>> /\ err = "" /\ again = <<>>
  /\ RunIdle

ReadBody ==
  /\ stage = "start"
  /\ LET r == readUpTo(data, rmax)
     IN err' = r.err /\ rout' = r.b
  /\ stage' = "read"
  /\ UNCHANGED <<data, status, sb, again, rmax, runVars>>

NextRead == ReadBody

SpecRead == InitRead /\ [][NextRead]_vars

\* C9: a body of at most max bytes is returned in full without error, a body
\* of max+1 bytes or more fails as too large, and a successful read returns
\* every byte of the body.
Thm_C9_BoundedRead ==
  stage = "read" =>
    /\ ByteLen(data) <= rmax => (err = "" /\ rout = data)
    /\ ByteLen(data) > rmax => err = "response too large"
    /\ err = "" => rout = data

\* a body of exactly maxFetchBytes bytes has been read under that ceiling
Wit_C9 ==
  /\ stage = "read"
  /\ rmax = maxFetchBytes
  /\ ByteLen(data) = maxFetchBytes
  /\ err = ""

====
